---- MODULE Spec2Model ----
(***************************************************************************)
(* A model of the hotel-finder microservices binary.                       *)
(*                                                                         *)
(* One process is one run of main(): it creates the tracer, reads the role *)
(* token, wires the role (dials its dependents, loads its data), starts    *)
(* the listen loop and then serves requests.  The frontend role serves     *)
(* GET /hotels, the geo role serves Nearby over its point index, the       *)
(* profile role serves GetProfiles over its lookup table.                  *)
(***************************************************************************)
EXTENDS Integers, Sequences, FiniteSets, TLC

VARIABLES
    cmd,        \* os.Args[1], the role token ("<none>": no argument given)
    pc,         \* position of main()
    exit,       \* how the process ended: "none", "fatal" (log.Fatalf), "panic"
    tracer,     \* service name of the tracer made by trace.New, or "none"
    srv,        \* the constructed service (var srv server), or "none"
    toDial,     \* addresses main() still has to dial, in argument order
    dialed,     \* addresses grpc.Dial was called with, in call order
    conns,      \* addresses of the connections dial() returned
    req,        \* frontend: the /hotels requests, one record per request
    geoidx,     \* geo: the point index, point id -> point
    point,      \* geo: the loop variable of newGeoIndex (Nil outside the loop)
    dupSeen,    \* geo: the points read so far held an id twice
    badSeen,    \* geo: the points read so far held an out-of-range coordinate
    geoRes,     \* geo: the last Nearby request and its result (Nil before any)
    profiles,   \* profile: the lookup table, hotel id -> hotel
    profRes     \* profile: the last GetProfiles request and its result

mainVars == <<cmd, pc, exit, tracer, srv, toDial, dialed, conns>>
geoVars == <<geoidx, point, dupSeen, badSeen, geoRes>>
profVars == <<profiles, profRes>>
vars == <<mainVars, req, geoVars, profVars>>

----------------------------------------------------------------------------
(* Values *)

Roles == {"geo", "rate", "profile", "search", "frontend"}
NoArg == "<none>"
Args == Roles \cup {"bogus", NoArg}

Nil == [nil |-> TRUE]
NoErr == "<nil>"
ErrMsgs == {"rpc error: code = Unavailable", "rpc error: code = Internal"}

StatusOK == 200
StatusBadRequest == 400
StatusInternalServerError == 500

----------------------------------------------------------------------------
(* main(): tracer, role switch, dial, run *)

\* The flag defaults of main(): the address of each dependent.
Addr(role) == role \o ":8080"

\* A switch whose search and frontend cases dial each other's dependents.
DependentsCrossed(role) ==
    CASE role = "search" -> <<Addr("search"), Addr("profile")>>
      [] role = "frontend" -> <<Addr("geo"), Addr("rate")>>
      [] OTHER -> <<>>

\* The dependents main() dials for a role, in argument evaluation order.
Dependents(role) ==
    CASE role = "search" -> <<Addr("geo"), Addr("rate")>>
      [] role = "frontend" -> <<Addr("search"), Addr("profile")>>
      [] OTHER -> <<>>

\* trace.New("search", *jaegeraddr): the service name main() passes for every role.
TracerServiceName == "search"

\* main() that names the tracer after the role it was started with.
TraceNewPerRole ==
    /\ pc = "traceNew"
    /\ \E ok \in BOOLEAN :
        IF ok
        THEN /\ tracer' = cmd
             /\ pc' = "switch"
             /\ exit' = exit
        ELSE /\ tracer' = tracer
             /\ pc' = "exited"
             /\ exit' = "fatal"
    /\ UNCHANGED <<cmd, srv, toDial, dialed, conns, req, geoVars, profVars>>

\* main() lines 47-50: create the tracer; on error log.Fatalf.
TraceNew ==
    /\ pc = "traceNew"
    /\ \E ok \in BOOLEAN :
        IF ok
        THEN /\ tracer' = TracerServiceName
             /\ pc' = "switch"
             /\ exit' = exit
        ELSE /\ tracer' = tracer
             /\ pc' = "exited"
             /\ exit' = "fatal"
    /\ UNCHANGED <<cmd, srv, toDial, dialed, conns, req, geoVars, profVars>>

\* main() line 53: os.Args[1] with no argument is an index out of range.
ArgsPanic ==
    /\ pc = "switch"
    /\ cmd = NoArg
    /\ pc' = "exited"
    /\ exit' = "panic"
    /\ UNCHANGED <<cmd, tracer, srv, toDial, dialed, conns, req, geoVars, profVars>>

\* main() lines 59-64: a role without dependents; New(t) loads the role's data.
SwitchLocal ==
    /\ pc = "switch"
    /\ cmd \in {"geo", "rate", "profile"}
    /\ pc' = CASE cmd = "geo" -> "newGeoIndex"
               [] cmd = "profile" -> "loadProfiles"
               [] OTHER -> "new"
    /\ UNCHANGED <<cmd, exit, tracer, srv, toDial, dialed, conns, req, geoVars, profVars>>

\* main() lines 65-76: a role with dependents; the arguments of New are
\* evaluated left to right, one dial per dependent.
SwitchDial ==
    /\ pc = "switch"
    /\ cmd \in {"search", "frontend"}
    /\ toDial' = Dependents(cmd)
    /\ pc' = "dial"
    /\ UNCHANGED <<cmd, exit, tracer, srv, dialed, conns, req, geoVars, profVars>>

\* The switch without its default case: main() goes on to srv.Run.
SwitchDefaultFallsThrough ==
    /\ pc = "switch"
    /\ cmd \notin Roles
    /\ cmd # NoArg
    /\ pc' = "run"
    /\ UNCHANGED <<cmd, exit, tracer, srv, toDial, dialed, conns, req, geoVars, profVars>>

\* main() lines 77-78: default: log.Fatalf("unknown cmd").
SwitchDefault ==
    /\ pc = "switch"
    /\ cmd \notin Roles
    /\ cmd # NoArg
    /\ pc' = "exited"
    /\ exit' = "fatal"
    /\ UNCHANGED <<cmd, tracer, srv, toDial, dialed, conns, req, geoVars, profVars>>

\* dial() that logs the error of grpc.Dial and returns the nil connection.
dialIgnoresError ==
    /\ pc = "dial"
    /\ toDial # <<>>
    /\ dialed' = Append(dialed, Head(toDial))
    /\ \E err \in BOOLEAN :
        conns' = IF err THEN conns ELSE Append(conns, Head(toDial))
    /\ toDial' = Tail(toDial)
    /\ pc' = IF Tail(toDial) = <<>> THEN "new" ELSE "dial"
    /\ UNCHANGED <<cmd, exit, tracer, srv, req, geoVars, profVars>>

\* dial(): grpc.Dial(addr); an error panics, otherwise the connection is returned.
dial ==
    /\ pc = "dial"
    /\ toDial # <<>>
    /\ dialed' = Append(dialed, Head(toDial))
    /\ \E err \in BOOLEAN :
        IF err
        THEN /\ pc' = "exited"
             /\ exit' = "panic"
             /\ UNCHANGED <<toDial, conns>>
        ELSE /\ conns' = Append(conns, Head(toDial))
             /\ toDial' = Tail(toDial)
             /\ pc' = IF Tail(toDial) = <<>> THEN "new" ELSE "dial"
             /\ exit' = exit
    /\ UNCHANGED <<cmd, tracer, srv, req, geoVars, profVars>>

\* The New of the selected role returns and main() assigns srv.
New ==
    /\ pc = "new"
    /\ srv' = cmd
    /\ pc' = "run"
    /\ UNCHANGED <<cmd, exit, tracer, toDial, dialed, conns, req, geoVars, profVars>>

\* main() lines 81-83: srv.Run(port); an error from the listener is fatal,
\* otherwise the listen loop serves until the process ends.
Run ==
    /\ pc = "run"
    /\ \E listening \in BOOLEAN :
        IF listening
        THEN /\ pc' = "serving"
             /\ exit' = exit
        ELSE /\ pc' = "exited"
             /\ exit' = "fatal"
    /\ UNCHANGED <<cmd, tracer, srv, toDial, dialed, conns, req, geoVars, profVars>>

----------------------------------------------------------------------------
(* Tracing: spans, carriers and the interceptors *)

\* Span ids in the order a trace hands them out.
SpanIds == <<"s1", "s2", "s3", "s4", "s5", "s6">>

NoContext == [traceId |-> "", spanId |-> ""]
NoCarrier == <<>>

\* The context of a span: what a child is started from.
Context(span) == [traceId |-> span.traceId, spanId |-> span.spanId]

\* Inject: the context of the span as the key/value carrier of the call.
Inject(span) ==
    [traceId |-> span.traceId, spanId |-> span.spanId, sampled |-> "1"]

\* The span of an instrumented caller, the root of the caller's trace.
UpstreamSpan ==
    [spanId |-> "s0", traceId |-> "t0", parentSpanId |-> "",
     serviceName |-> "caller", operationName |-> "call", kind |-> "client",
     finished |-> FALSE]

\* The carrier of a call that an instrumented caller sent.
UpstreamCarrier == Inject(UpstreamSpan)

InboundCarriers == {NoCarrier, UpstreamCarrier}

\* Extract: the context a carrier holds; none when it is absent or incomplete.
Extract(carrier) ==
    IF {"traceId", "spanId"} \subseteq DOMAIN carrier
    THEN [traceId |-> carrier.traceId, spanId |-> carrier.spanId]
    ELSE NoContext

\* StartSpan: a child of parent in parent's trace, or the root of a trace of
\* its own (fresh); the span is appended to the spans reported so far.
StartSpan(spans, service, operation, kind, parent, fresh) ==
    Append(spans,
        [spanId |-> SpanIds[Len(spans) + 1],
         traceId |-> IF parent = NoContext THEN fresh ELSE parent.traceId,
         parentSpanId |-> parent.spanId,
         serviceName |-> service,
         operationName |-> operation,
         kind |-> kind,
         finished |-> FALSE])

\* span.Finish() of the i-th span.
Finish(spans, i) == [spans EXCEPT ![i].finished = TRUE]

\* dial() without the tracing interceptor.
dialOptsInsecureOnly == {"WithInsecure"}

\* The options dial() gives grpc.Dial.
dialOpts == {"WithInsecure", "WithUnaryInterceptor(OpenTracingClientInterceptor(t))"}

\* grpc.NewServer(grpc.UnaryInterceptor(otgrpc.OpenTracingServerInterceptor(s.tracer))).
serverOpts == {"UnaryInterceptor(OpenTracingServerInterceptor(s.tracer))"}

\* The server interceptor around one inbound call: extract, start the span
\* of the call, run the handler, finish the span.
serverInterceptor(spans, opts, service, operation, carrier, fresh) ==
    IF "UnaryInterceptor(OpenTracingServerInterceptor(s.tracer))" \in opts
    THEN LET started == StartSpan(spans, service, operation, "server",
                                  Extract(carrier), fresh)
         IN Finish(started, Len(started))
    ELSE spans

----------------------------------------------------------------------------
(* Frontend: GET /hotels *)

Requests == {"r1", "r2"}

Dates == {"", "2015-04-09"}
Locales == {"", "fr"}
MaxHotels == 2

HotelIdSet == {"1", "2"}

RECURSIVE SeqsUpTo(_, _)
SeqsUpTo(S, n) ==
    IF n = 0 THEN {<<>>}
    ELSE LET shorter == SeqsUpTo(S, n - 1)
         IN shorter \cup {Append(q, x) : q \in shorter, x \in S}

\* *profile.Hotel values a Profile dependent can return: a full record, a record
\* without an address, and the nil pointer.
HotelRecs ==
    { [Id |-> "1", Name |-> "Clift Hotel", PhoneNumber |-> "(415) 775-4700",
       Address |-> [Lat |-> 37, Lon |-> -122]],
      [Id |-> "2", Name |-> "W San Francisco", PhoneNumber |-> "(415) 777-5300",
       Address |-> Nil] }

SearchOutcomes ==
    {[err |-> m, HotelIds |-> <<>>] : m \in ErrMsgs}
    \cup {[err |-> NoErr, HotelIds |-> ids] : ids \in SeqsUpTo(HotelIdSet, MaxHotels)}

\* What the Profile dependent can answer to GetProfiles(ids): an error, or one
\* entry per requested id, the record of that id or nil.
ProfileOutcomes(ids) ==
    {[err |-> m, Hotels |-> <<>>] : m \in ErrMsgs}
    \cup {[err |-> NoErr, Hotels |-> hs] :
            hs \in {h \in [1..Len(ids) -> HotelRecs \cup {Nil}] :
                        \A i \in 1..Len(ids) : h[i] = Nil \/ h[i].Id = ids[i]}}

NoStatus == 0
NoBody == [kind |-> "none"]

NewRequest ==
    [pc |-> "idle", inDate |-> "", outDate |-> "", locale |-> "",
     calls |-> <<>>, sent |-> Nil, replies |-> <<>>,
     status |-> NoStatus, body |-> NoBody,
     carrier |-> NoCarrier, cancelled |-> FALSE, spans |-> <<>>]

\* frontend.New: the clients are made of the connections in argument order.
searchClient == conns[1]
profileClient == conns[2]

\* A call through a client: the connection, the context and the message; the
\* metadata is what the interceptor of the connection adds.
Call(conn, ctx, msg) ==
    [conn |-> conn, ctx |-> ctx, msg |-> msg, metadata |-> NoCarrier]

\* http.Error(w, msg, code): the status and the message as plain text.
httpError(rq, msg, code) ==
    [rq EXCEPT !.pc = "done", !.status = code,
               !.body = [kind |-> "text", text |-> msg]]

\* searchHandlerEntry with the date check written with && for ||.
searchHandlerEntryBothMissing(rq, inDate, outDate, locale) ==
    LET got == [rq EXCEPT !.inDate = inDate, !.outDate = outDate, !.locale = locale]
    IN IF inDate = "" /\ outDate = ""
       THEN httpError(got, "Please specify inDate/outDate params", StatusBadRequest)
       ELSE [got EXCEPT !.pc = "search",
                        !.calls = Append(@, "Search"),
                        !.sent = Call(searchClient, "r.Context()",
                                      [InDate |-> inDate, OutDate |-> outDate])]

\* searchHandlerEntry that calls Search with a context of its own.
searchHandlerEntryBackground(rq, inDate, outDate, locale) ==
    LET got == [rq EXCEPT !.inDate = inDate, !.outDate = outDate, !.locale = locale]
    IN IF inDate = "" \/ outDate = ""
       THEN httpError(got, "Please specify inDate/outDate params", StatusBadRequest)
       ELSE [got EXCEPT !.pc = "search",
                        !.calls = Append(@, "Search"),
                        !.sent = Call(searchClient, "context.Background()",
                                      [InDate |-> inDate, OutDate |-> outDate])]

\* searchHandler lines 51-76: read the dates; reject when one is missing,
\* otherwise call Search.
searchHandlerEntry(rq, inDate, outDate, locale) ==
    LET got == [rq EXCEPT !.inDate = inDate, !.outDate = outDate, !.locale = locale]
    IN IF inDate = "" \/ outDate = ""
       THEN httpError(got, "Please specify inDate/outDate params", StatusBadRequest)
       ELSE [got EXCEPT !.pc = "search",
                        !.calls = Append(@, "Search"),
                        !.sent = Call(searchClient, "r.Context()",
                                      [InDate |-> inDate, OutDate |-> outDate])]

\* searchHandlerAfterSearch without the error check: Profile is called anyway.
searchHandlerAfterSearchIgnoresErr(rq, out) ==
    [rq EXCEPT !.pc = "profile",
               !.calls = Append(@, "Profile"),
               !.sent = Call(profileClient, "r.Context()",
                             [HotelIds |-> out.HotelIds,
                              Locale |-> IF rq.locale = "" THEN "en" ELSE rq.locale])]

\* searchHandlerAfterSearch that calls Profile with a context of its own.
searchHandlerAfterSearchBackground(rq, out) ==
    IF out.err # NoErr
    THEN httpError(rq, out.err, StatusInternalServerError)
    ELSE [rq EXCEPT !.pc = "profile",
                    !.calls = Append(@, "Profile"),
                    !.sent = Call(profileClient, "context.Background()",
                                  [HotelIds |-> out.HotelIds,
                                   Locale |-> IF rq.locale = "" THEN "en" ELSE rq.locale])]

\* searchHandler lines 77-96: Search returned; on error 500, otherwise default
\* the locale and call Profile with the ids.
searchHandlerAfterSearch(rq, out) ==
    IF out.err # NoErr
    THEN httpError(rq, out.err, StatusInternalServerError)
    ELSE [rq EXCEPT !.pc = "profile",
                    !.calls = Append(@, "Profile"),
                    !.sent = Call(profileClient, "r.Context()",
                                  [HotelIds |-> out.HotelIds,
                                   Locale |-> IF rq.locale = "" THEN "en" ELSE rq.locale])]

\* geoJSONResponse reads h.Id and h.Address.Lon: it panics on a nil h or a nil
\* h.Address.
geoJSONPanics(hs) ==
    \E i \in 1..Len(hs) : hs[i] = Nil \/ hs[i].Address = Nil

\* geoJSONResponse: one Feature per hotel, in order.
geoJSONResponse(hs) ==
    [kind |-> "json", type |-> "FeatureCollection",
     features |-> [i \in 1..Len(hs) |->
        [type |-> "Feature", id |-> hs[i].Id,
         properties |-> [name |-> hs[i].Name, phone_number |-> hs[i].PhoneNumber],
         geometry |-> [type |-> "Point",
                       coordinates |-> <<hs[i].Address.Lon, hs[i].Address.Lat>>]]]]

\* searchHandlerAfterProfile without the error check: the (empty) result of the
\* failed call is encoded as a success.
searchHandlerAfterProfileMasksErr(rq, out) ==
    IF geoJSONPanics(out.Hotels)
    THEN [rq EXCEPT !.pc = "panicked"]
    ELSE [rq EXCEPT !.pc = "done", !.status = StatusOK,
                    !.body = geoJSONResponse(out.Hotels)]

\* searchHandler lines 97-102: Profile returned; on error 500, otherwise encode
\* the GeoJSON response.
searchHandlerAfterProfile(rq, out) ==
    IF out.err # NoErr
    THEN httpError(rq, out.err, StatusInternalServerError)
    ELSE IF geoJSONPanics(out.Hotels)
         THEN [rq EXCEPT !.pc = "panicked"]
         ELSE [rq EXCEPT !.pc = "done", !.status = StatusOK,
                         !.body = geoJSONResponse(out.Hotels)]

Serving(role) == pc = "serving" /\ srv = role

\* The reply of a dependent reaches the request that called it.
Replied(rq, dependent, out) ==
    [rq EXCEPT !.replies = Append(@, [from |-> dependent, out |-> out])]

\* The trace a request without inbound context starts.
FreshTraceId(r) == "t-" \o r

\* The carrier of each /hotels request: r1 comes from a browser, r2 through
\* an instrumented caller.
InboundCarrier(r) == IF r = "r1" THEN NoCarrier ELSE UpstreamCarrier

InFlight(rq) == rq.pc \in {"search", "profile"}
Returned(rq) == rq.pc \in {"done", "panicked"}

\* The context of the call in flight is done: it is the request's context
\* and the request was cancelled.
CallCtxDone(rq) == rq.sent.ctx = "r.Context()" /\ rq.cancelled

\* trace.NewServeMux on the way in: extract the carrier of the request and
\* start the span the handler's context carries.
serveMuxEnter(rq, carrier, fresh) ==
    [rq EXCEPT !.carrier = carrier,
               !.spans = StartSpan(@, tracer, "HTTP GET /hotels", "server",
                                   Extract(carrier), fresh)]

\* The client interceptor of a connection on a call being sent: a span under
\* the span of the call's context, injected into the metadata of the call.
clientInterceptorSend(rq, fresh) ==
    IF "WithUnaryInterceptor(OpenTracingClientInterceptor(t))" \in dialOpts
    THEN LET parent == IF rq.sent.ctx = "r.Context()"
                       THEN Context(rq.spans[1]) ELSE NoContext
             started == StartSpan(rq.spans, tracer, rq.calls[Len(rq.calls)],
                                  "client", parent, fresh)
         IN [rq EXCEPT !.spans = started,
                       !.sent.metadata = Inject(started[Len(started)])]
    ELSE rq

\* The client interceptor on the call coming back, whatever it returns: the
\* span of the call is finished.
clientInterceptorReturn(rq) ==
    LET open == {i \in 1..Len(rq.spans) :
                    rq.spans[i].kind = "client" /\ ~rq.spans[i].finished}
    IN [rq EXCEPT !.spans = [i \in 1..Len(@) |->
                                IF i \in open THEN [@[i] EXCEPT !.finished = TRUE]
                                ELSE @[i]]]

\* The dependent serves the call in flight behind its server interceptor.
dependentServes(rq, fresh) ==
    [rq EXCEPT !.spans = serverInterceptor(@, serverOpts, TracerServiceName,
                                           rq.calls[Len(rq.calls)],
                                           rq.sent.metadata, fresh)]

\* One run of the handler from `before` to `after`: a call it made goes out
\* through the client interceptor, and when it has returned trace.NewServeMux
\* finishes the span of the request (a panic unwinds past that statement).
Traced(before, after, fresh) ==
    LET sent == IF Len(after.calls) > Len(before.calls)
                THEN clientInterceptorSend(after, fresh) ELSE after
    IN IF sent.pc = "done" THEN [sent EXCEPT !.spans = Finish(@, 1)] ELSE sent

\* A GET /hotels request arrives and the handler runs up to its first call.
HotelsRequest(r) ==
    /\ Serving("frontend")
    /\ req[r].pc = "idle"
    /\ \E inDate \in Dates, outDate \in Dates, locale \in Locales :
        LET entered == serveMuxEnter(req[r], InboundCarrier(r), FreshTraceId(r))
        IN req' = [req EXCEPT ![r] =
                    Traced(entered, searchHandlerEntry(entered, inDate, outDate, locale),
                           FreshTraceId(r) \o "-search")]
    /\ UNCHANGED <<mainVars, geoVars, profVars>>

\* A frontend that dials the search address again when a Search call failed.
SearchReturnsRedials(r) ==
    /\ Serving("frontend")
    /\ req[r].pc = "search"
    /\ ~CallCtxDone(req[r])
    /\ \E out \in SearchOutcomes :
        LET served == dependentServes(req[r], FreshTraceId(r) \o "-search-server")
            replied == Replied(clientInterceptorReturn(served), "Search", out)
        IN /\ req' = [req EXCEPT ![r] =
                        Traced(replied, searchHandlerAfterSearch(replied, out),
                               FreshTraceId(r) \o "-profile")]
           /\ dialed' = IF out.err # NoErr THEN Append(dialed, Addr("search")) ELSE dialed
    /\ UNCHANGED <<cmd, pc, exit, tracer, srv, toDial, conns, geoVars, profVars>>

\* The Search dependent answers.
SearchReturns(r) ==
    /\ Serving("frontend")
    /\ req[r].pc = "search"
    /\ ~CallCtxDone(req[r])
    /\ \E out \in SearchOutcomes :
        LET served == dependentServes(req[r], FreshTraceId(r) \o "-search-server")
            replied == Replied(clientInterceptorReturn(served), "Search", out)
        IN req' = [req EXCEPT ![r] =
                    Traced(replied, searchHandlerAfterSearch(replied, out),
                           FreshTraceId(r) \o "-profile")]
    /\ UNCHANGED <<mainVars, geoVars, profVars>>

\* The Profile dependent answers.
ProfileReturns(r) ==
    /\ Serving("frontend")
    /\ req[r].pc = "profile"
    /\ ~CallCtxDone(req[r])
    /\ \E out \in ProfileOutcomes(req[r].sent.msg.HotelIds) :
        LET served == dependentServes(req[r], FreshTraceId(r) \o "-profile-server")
            replied == Replied(clientInterceptorReturn(served), "Profile", out)
        IN req' = [req EXCEPT ![r] =
                    Traced(replied, searchHandlerAfterProfile(replied, out),
                           FreshTraceId(r))]
    /\ UNCHANGED <<mainVars, geoVars, profVars>>

\* The caller of a /hotels request goes away while the handler waits for a
\* dependent: the context of the request is cancelled.
Cancel(r) ==
    /\ Serving("frontend")
    /\ InFlight(req[r])
    /\ ~req[r].cancelled
    /\ req' = [req EXCEPT ![r].cancelled = TRUE]
    /\ UNCHANGED <<mainVars, geoVars, profVars>>

CanceledErr == "rpc error: code = Canceled desc = context canceled"

\* A call whose context is done returns the cancellation to the handler.
CallCancelled(r) ==
    /\ Serving("frontend")
    /\ InFlight(req[r])
    /\ CallCtxDone(req[r])
    /\ LET out == [err |-> CanceledErr, HotelIds |-> <<>>, Hotels |-> <<>>]
           replied == Replied(clientInterceptorReturn(req[r]), req[r].calls[Len(req[r].calls)], out)
       IN req' = [req EXCEPT ![r] =
                    Traced(replied,
                           IF req[r].pc = "search"
                           THEN searchHandlerAfterSearch(replied, out)
                           ELSE searchHandlerAfterProfile(replied, out),
                           FreshTraceId(r) \o "-profile")]
    /\ UNCHANGED <<mainVars, geoVars, profVars>>

----------------------------------------------------------------------------
(* Geo: the point index and Nearby *)

maxSearchRadius == 10
maxSearchResults == 5

\* Coordinates are in hundredths of a degree.
MaxLat == 9000
MaxLon == 18000
NumIds == 6

\* The points a geo.json can hold.  Point ids are numbered in their string
\* order.  Every id can sit at either of two places 0.06 degrees apart on the
\* equator; id 1 can also carry a latitude, and id 2 a longitude, out of range.
PointUniverse ==
    {[Pid |-> i, Plat |-> 0, Plon |-> lon] : i \in 1..NumIds, lon \in {0, 6}}
    \cup {[Pid |-> 1, Plat |-> MaxLat + 1, Plon |-> 0],
          [Pid |-> 2, Plat |-> 0, Plon |-> -(MaxLon + 1)]}

\* The centers of the Nearby requests.
Centers ==
    {[Plat |-> 0, Plon |-> 0], [Plat |-> 0, Plon |-> 3], [Plat |-> 4, Plon |-> 3],
     [Plat |-> 0, Plon |-> -4]}

InRange(p) ==
    /\ -MaxLat <= p.Plat /\ p.Plat <= MaxLat
    /\ -MaxLon <= p.Plon /\ p.Plon <= MaxLon

\* Great-circle distance: at the equator one hundredth of a degree of latitude
\* or of longitude is 1112 m, and over the few hundredths of a degree the
\* requests span the distance is 1112 m times the distance of the coordinates.
MetresPerUnit == 1112

DistanceSq(a, b) ==
    (a.Plat - b.Plat) * (a.Plat - b.Plat) + (a.Plon - b.Plon) * (a.Plon - b.Plon)

\* Distance(a, b) <= maxDistance, maxDistance in metres.
Within(a, b, maxDistance) ==
    DistanceSq(a, b) <= (maxDistance * maxDistance) \div (MetresPerUnit * MetresPerUnit)

\* geoindex.Km: kilometres as Meters.
Km(km) == km * 1000

\* index.Add(point): the index keeps one point per id.
Add(index, p) ==
    [id \in DOMAIN index \cup {p.Pid} |-> IF id = p.Pid THEN p ELSE index[id]]

\* a is ranked before b from center: nearer, or as near with the smaller id.
Before(center, a, b) ==
    \/ DistanceSq(center, a) < DistanceSq(center, b)
    \/ /\ DistanceSq(center, a) = DistanceSq(center, b)
       /\ a.Pid < b.Pid

\* The points of S ranked from center.
RECURSIVE Ranked(_, _)
Ranked(center, S) ==
    IF S = {} THEN <<>>
    ELSE LET first == CHOOSE a \in S : \A b \in S \ {a} : Before(center, a, b)
         IN <<first>> \o Ranked(center, S \ {first})

\* index.KNearest(center, k, maxDistance, accept): the accepted points within
\* maxDistance, ranked, at most k of them.
KNearest(index, center, k, maxDistance, accept) ==
    LET found == {index[id] : id \in DOMAIN index}
        near == {p \in found : accept[p] /\ Within(center, p, maxDistance)}
        ranked == Ranked(center, near)
    IN SubSeq(ranked, 1, IF Len(ranked) < k THEN Len(ranked) ELSE k)

\* func(p geoindex.Point) bool { return true }
acceptAll == [p \in PointUniverse |-> TRUE]

\* getNearbyPoints with the count and the radius in each other's place.
getNearbyPointsSwapped(index, lat, lon) ==
    KNearest(index, [Pid |-> 0, Plat |-> lat, Plon |-> lon],
             maxSearchRadius, Km(maxSearchResults), acceptAll)

\* Geo.getNearbyPoints: KNearest around (lat, lon) with the fixed k and radius.
getNearbyPoints(index, lat, lon) ==
    KNearest(index, [Pid |-> 0, Plat |-> lat, Plon |-> lon],
             maxSearchResults, Km(maxSearchRadius), acceptAll)

\* Nearby that puts each id in front of the ids collected so far.
NearbyPrepends(index, lat, lon) ==
    LET points == getNearbyPoints(index, lat, lon)
    IN [i \in 1..Len(points) |-> points[Len(points) + 1 - i].Pid]

\* Geo.Nearby: the ids of the nearby points, in the order of the points.
Nearby(index, lat, lon) ==
    LET points == getNearbyPoints(index, lat, lon)
    IN [i \in 1..Len(points) |-> points[i].Pid]

\* The loop body with a duplicate check: a point whose id is taken is dropped.
newGeoIndexStepKeepsFirst(index, p) ==
    IF p.Pid \in DOMAIN index THEN index ELSE Add(index, p)

\* The loop body with a coordinate check: an out-of-range point is dropped.
newGeoIndexStepSkipsInvalid(index, p) ==
    IF InRange(p) THEN Add(index, p) ELSE index

\* newGeoIndex line 131, the body of the loop: every point is added.
newGeoIndexStep(index, p) == Add(index, p)

\* newGeoIndex lines 119-126: read and parse the file; a parse error is fatal.
GeoUnmarshal ==
    /\ pc = "newGeoIndex"
    /\ \E ok \in BOOLEAN :
        IF ok
        THEN /\ pc' = "addPoints"
             /\ exit' = exit
        ELSE /\ pc' = "exited"
             /\ exit' = "fatal"
    /\ UNCHANGED <<cmd, tracer, srv, toDial, dialed, conns, req, geoVars, profVars>>

\* newGeoIndex lines 130-132: the next point of the file is added to the index.
GeoAddPoint ==
    /\ pc = "addPoints"
    /\ \E p \in PointUniverse :
        /\ point' = p
        /\ geoidx' = newGeoIndexStep(geoidx, p)
        /\ dupSeen' = (dupSeen \/ p.Pid \in DOMAIN geoidx)
        /\ badSeen' = (badSeen \/ ~InRange(p))
    /\ UNCHANGED <<mainVars, req, geoRes, profVars>>

\* newGeoIndex lines 130-132 on a null element of the file: point.Id() inside
\* index.Add dereferences the nil *point.
GeoAddNil ==
    /\ pc = "addPoints"
    /\ point' = Nil
    /\ pc' = "exited"
    /\ exit' = "panic"
    /\ UNCHANGED <<cmd, tracer, srv, toDial, dialed, conns, req,
                   geoidx, dupSeen, badSeen, geoRes, profVars>>

\* newGeoIndex line 134: the file is exhausted and the index is returned.
GeoIndexBuilt ==
    /\ pc = "addPoints"
    /\ point' = Nil
    /\ pc' = "new"
    /\ UNCHANGED <<cmd, exit, tracer, srv, toDial, dialed, conns, req,
                   geoidx, dupSeen, badSeen, geoRes, profVars>>

\* A Nearby request is served; it comes from a search process, whose
\* connection to geo is dialed with the client interceptor.
NearbyRequest ==
    /\ Serving("geo")
    /\ \E c \in Centers :
        geoRes' = [Lat |-> c.Plat, Lon |-> c.Plon,
                   HotelIds |-> Nearby(geoidx, c.Plat, c.Plon),
                   carrier |-> UpstreamCarrier,
                   spans |-> serverInterceptor(<<>>, serverOpts, tracer, "Nearby",
                                               UpstreamCarrier, "t-geo")]
    /\ UNCHANGED <<mainVars, req, geoidx, point, dupSeen, badSeen, profVars>>

----------------------------------------------------------------------------
(* Profile: the lookup table and GetProfiles *)

\* The hotels a hotels.json can hold.
FileHotels ==
    HotelRecs \cup
    { [Id |-> "1", Name |-> "Clift", PhoneNumber |-> "(415) 775-4700",
       Address |-> [Lat |-> 37, Lon |-> -122]] }

\* The ids a GetProfiles request can ask for; "3" is in no hotels.json.
RequestIds == HotelIdSet \cup {"3"}

\* loadProfiles line 81, the body of the loop.
loadProfilesStep(table, hotel) ==
    [id \in DOMAIN table \cup {hotel.Id} |-> IF id = hotel.Id THEN hotel ELSE table[id]]

\* Profile.getProfile: the map lookup; a missing key is the nil pointer.
getProfile(table, id) == IF id \in DOMAIN table THEN table[id] ELSE Nil

\* GetProfiles that leaves out the ids the table does not hold.
GetProfilesSkipsUnknown(table, ids) ==
    LET known == SelectSeq(ids, LAMBDA id : id \in DOMAIN table)
    IN [Hotels |-> [i \in 1..Len(known) |-> getProfile(table, known[i])],
        err |-> NoErr]

\* Profile.GetProfiles: one entry per requested id, in order; return res, nil.
GetProfiles(table, ids) ==
    [Hotels |-> [i \in 1..Len(ids) |-> getProfile(table, ids[i])],
     err |-> NoErr]

\* loadProfiles lines 71-77: read and parse the file; a parse error is fatal.
ProfileUnmarshal ==
    /\ pc = "loadProfiles"
    /\ \E ok \in BOOLEAN :
        IF ok
        THEN /\ pc' = "addProfiles"
             /\ exit' = exit
        ELSE /\ pc' = "exited"
             /\ exit' = "fatal"
    /\ UNCHANGED <<cmd, tracer, srv, toDial, dialed, conns, req, geoVars, profVars>>

\* loadProfiles lines 80-82: the next hotel of the file is put in the table.
ProfileAddHotel ==
    /\ pc = "addProfiles"
    /\ \E h \in FileHotels : profiles' = loadProfilesStep(profiles, h)
    /\ UNCHANGED <<mainVars, req, geoVars, profRes>>

\* loadProfiles lines 80-82 on a null element of the file: hotel.Id dereferences
\* the nil *profile.Hotel.
ProfileAddNil ==
    /\ pc = "addProfiles"
    /\ pc' = "exited"
    /\ exit' = "panic"
    /\ UNCHANGED <<cmd, tracer, srv, toDial, dialed, conns, req, geoVars, profVars>>

\* loadProfiles line 83: the file is exhausted and the table is returned.
ProfilesLoaded ==
    /\ pc = "addProfiles"
    /\ pc' = "new"
    /\ UNCHANGED <<cmd, exit, tracer, srv, toDial, dialed, conns, req, geoVars, profVars>>

\* The reply to a GetProfiles request for ids that arrived with carrier.
GetProfilesReply(ids, carrier) ==
    LET out == GetProfiles(profiles, ids)
    IN [HotelIds |-> ids, Hotels |-> out.Hotels, err |-> out.err,
        carrier |-> carrier,
        spans |-> serverInterceptor(<<>>, serverOpts, tracer, "GetProfiles",
                                    carrier, "t-profile")]

\* A GetProfiles that stores what it looked up, the missing ids included.
GetProfilesRequestCaches ==
    /\ Serving("profile")
    /\ \E ids \in SeqsUpTo(RequestIds, MaxHotels), carrier \in InboundCarriers :
        /\ profRes' = GetProfilesReply(ids, carrier)
        /\ profiles' = [id \in DOMAIN profiles \cup {ids[i] : i \in 1..Len(ids)} |->
                            getProfile(profiles, id)]
    /\ UNCHANGED <<mainVars, req, geoVars>>

\* A GetProfiles request is served.
GetProfilesRequest ==
    /\ Serving("profile")
    /\ \E ids \in SeqsUpTo(RequestIds, MaxHotels), carrier \in InboundCarriers :
        profRes' = GetProfilesReply(ids, carrier)
    /\ UNCHANGED <<mainVars, req, geoVars, profiles>>

----------------------------------------------------------------------------
Init ==
    /\ cmd \in Args
    /\ pc = "traceNew"
    /\ exit = "none"
    /\ tracer = "none"
    /\ srv = "none"
    /\ toDial = <<>>
    /\ dialed = <<>>
    /\ conns = <<>>
    /\ req = [r \in Requests |-> NewRequest]
    /\ geoidx = <<>>
    /\ point = Nil
    /\ dupSeen = FALSE
    /\ badSeen = FALSE
    /\ geoRes = Nil
    /\ profiles = <<>>
    /\ profRes = Nil

Next ==
    \/ TraceNew
    \/ ArgsPanic
    \/ SwitchLocal
    \/ SwitchDial
    \/ SwitchDefault
    \/ dial
    \/ New
    \/ Run
    \/ \E r \in Requests : HotelsRequest(r)
    \/ \E r \in Requests : SearchReturns(r)
    \/ \E r \in Requests : ProfileReturns(r)
    \/ \E r \in Requests : Cancel(r)
    \/ \E r \in Requests : CallCancelled(r)
    \/ GeoUnmarshal
    \/ GeoAddPoint
    \/ GeoAddNil
    \/ GeoIndexBuilt
    \/ NearbyRequest
    \/ ProfileUnmarshal
    \/ ProfileAddHotel
    \/ ProfileAddNil
    \/ ProfilesLoaded
    \/ GetProfilesRequest

Spec == Init /\ [][Next]_vars

----------------------------------------------------------------------------
(* Properties *)

Handled(r) == req[r].pc # "idle"

Calls(r, dependent) == {i \in 1..Len(req[r].calls) : req[r].calls[i] = dependent}

\* The replies with an error that request r got from a dependent.
ErrReplies(r, dependent) ==
    {i \in 1..Len(req[r].replies) :
        /\ req[r].replies[i].from = dependent
        /\ req[r].replies[i].out.err # NoErr}

\* C1: a /hotels request whose inDate or outDate is missing or empty is
\* answered 400 and calls neither Search nor Profile.
C1_MissingDateRejected ==
    \A r \in Requests :
        (Handled(r) /\ (req[r].inDate = "" \/ req[r].outDate = ""))
        => /\ req[r].pc = "done"
           /\ req[r].status = StatusBadRequest
           /\ req[r].calls = <<>>

C1_Witness ==
    \E r \in Requests :
        /\ req[r].pc = "done"
        /\ req[r].inDate # ""
        /\ req[r].outDate = ""
        /\ req[r].status = StatusBadRequest

\* C2: with both dates present, an error returned by Search is answered 500
\* with the error's message in the body and Profile is never called; every
\* Profile call comes after a Search call that returned without error.
C2_SearchErrorIs500 ==
    \A r \in Requests :
        /\ \A i \in ErrReplies(r, "Search") :
            /\ req[r].inDate # "" /\ req[r].outDate # ""
            /\ req[r].pc = "done"
            /\ req[r].status = StatusInternalServerError
            /\ req[r].body = [kind |-> "text", text |-> req[r].replies[i].out.err]
            /\ Calls(r, "Profile") = {}
        /\ \A i \in Calls(r, "Profile") :
            /\ \E j \in Calls(r, "Search") : j < i
            /\ \E j \in 1..Len(req[r].replies) :
                /\ req[r].replies[j].from = "Search"
                /\ req[r].replies[j].out.err = NoErr

C2_Witness ==
    \E r \in Requests :
        /\ ErrReplies(r, "Search") # {}
        /\ req[r].status = StatusInternalServerError
        /\ req[r].calls = <<"Search">>

\* C3: one request makes at most one Search call and at most one Profile
\* call, and a request that got an error from either is answered 500 with the
\* error text, never with a success body.
C3_NoRetryNoMask ==
    \A r \in Requests :
        /\ Cardinality(Calls(r, "Search")) <= 1
        /\ Cardinality(Calls(r, "Profile")) <= 1
        /\ (ErrReplies(r, "Search") \cup ErrReplies(r, "Profile") # {})
            => /\ req[r].pc = "done"
               /\ req[r].status = StatusInternalServerError
               /\ req[r].body.kind = "text"

C3_Witness ==
    \E r \in Requests :
        /\ ErrReplies(r, "Profile") # {}
        /\ req[r].calls = <<"Search", "Profile">>
        /\ req[r].status = StatusInternalServerError

\* C4: with a role token outside the five roles the process ends at the switch:
\* it has dialed nothing, constructed no service and started no listen loop,
\* and an unknown token ends it by log.Fatalf.
C4_UnknownRoleFatal ==
    cmd \notin Roles
    => /\ pc \in {"traceNew", "switch", "exited"}
       /\ dialed = <<>> /\ conns = <<>> /\ toDial = <<>>
       /\ srv = "none"
       /\ (pc = "exited" /\ tracer # "none" /\ cmd # NoArg) => exit = "fatal"

C4_Witness ==
    /\ cmd = "bogus"
    /\ tracer # "none"
    /\ pc = "exited"
    /\ exit = "fatal"

\* C5: for the search and frontend roles a failed Dial ends the process at
\* once, whichever dependent it was: no service is constructed and the listen
\* loop is never reached; a service is constructed only with every dependent
\* of the role connected.
C5_NoPartialStart ==
    /\ Len(dialed) > Len(conns)
        => /\ pc = "exited"
           /\ exit = "panic"
           /\ srv = "none"
    /\ (cmd \in {"search", "frontend"} /\ pc \in {"new", "run", "serving"})
        => conns = Dependents(cmd)
    /\ (cmd \in {"search", "frontend"} /\ srv # "none")
        => conns = Dependents(cmd)

C5_Witness ==
    /\ cmd = "frontend"
    /\ dialed = <<Addr("search"), Addr("profile")>>
    /\ conns = <<Addr("search")>>
    /\ pc = "exited"

Built == cmd = "geo" /\ pc \in {"new", "run", "serving"}

\* C6: a Nearby result holds at most maxSearchResults ids, each of a point of
\* the index within maxSearchRadius km of the center of the request.
C6_NearbyBounded ==
    geoRes # Nil
    => /\ Len(geoRes.HotelIds) <= maxSearchResults
       /\ \A i \in 1..Len(geoRes.HotelIds) :
            /\ geoRes.HotelIds[i] \in DOMAIN geoidx
            /\ Within([Plat |-> geoRes.Lat, Plon |-> geoRes.Lon],
                      geoidx[geoRes.HotelIds[i]], maxSearchRadius * 1000)

\* A result shorter than maxSearchResults although the index holds a valid
\* point that is farther than the radius.
C6_Witness ==
    /\ geoRes # Nil
    /\ Len(geoRes.HotelIds) \in 1..(maxSearchResults - 1)
    /\ \E id \in DOMAIN geoidx :
        /\ InRange(geoidx[id])
        /\ ~Within([Plat |-> geoRes.Lat, Plon |-> geoRes.Lon],
                   geoidx[id], maxSearchRadius * 1000)

ResultDistanceSq(i) ==
    DistanceSq([Plat |-> geoRes.Lat, Plon |-> geoRes.Lon], geoidx[geoRes.HotelIds[i]])

\* C7: the ids of a Nearby result are in ascending order of distance from the
\* center, ids at the same distance in ascending order of id; the result is the
\* ids of the points of getNearbyPoints in their order.
C7_NearbyOrdered ==
    geoRes # Nil
    => /\ \A i, j \in 1..Len(geoRes.HotelIds) :
            i < j => \/ ResultDistanceSq(i) < ResultDistanceSq(j)
                     \/ /\ ResultDistanceSq(i) = ResultDistanceSq(j)
                        /\ geoRes.HotelIds[i] < geoRes.HotelIds[j]
       /\ LET points == getNearbyPoints(geoidx, geoRes.Lat, geoRes.Lon)
          IN /\ Len(geoRes.HotelIds) = Len(points)
             /\ \A i \in 1..Len(points) : geoRes.HotelIds[i] = points[i].Pid

\* A result with two ids at the same distance after a nearer one.
C7_Witness ==
    /\ geoRes # Nil
    /\ \E i \in 1..Len(geoRes.HotelIds) :
        /\ i + 2 <= Len(geoRes.HotelIds)
        /\ ResultDistanceSq(i) < ResultDistanceSq(i + 1)
        /\ ResultDistanceSq(i + 1) = ResultDistanceSq(i + 2)

C10_OneFeaturePerRecord ==
    \A r \in Requests :
        \A i \in 1..Len(req[r].replies) :
            (req[r].replies[i].from = "Profile" /\ req[r].replies[i].out.err = NoErr)
            => LET hs == req[r].replies[i].out.Hotels
               IN /\ req[r].pc = "done"
                  /\ req[r].status = StatusOK
                  /\ req[r].body.kind = "json"
                  /\ req[r].body.type = "FeatureCollection"
                  /\ Len(req[r].body.features) = Len(hs)
                  /\ \A k \in 1..Len(hs) :
                        hs[k] # Nil => req[r].body.features[k].id = hs[k].Id

\* The elements of a sequence.
Range(seq) == {seq[i] : i \in 1..Len(seq)}

\* C14: the search role dials exactly geo and rate, the frontend role exactly
\* search and profile, the geo, rate and profile roles dial nothing, and every
\* dial of a role has completed before its listen loop is started.
C14_ExactDependentsBeforeServing ==
    /\ cmd \in {"geo", "rate", "profile"} => dialed = <<>> /\ conns = <<>>
    /\ cmd = "search" => Range(dialed) \subseteq {"geo:8080", "rate:8080"}
    /\ cmd = "frontend" => Range(dialed) \subseteq {"search:8080", "profile:8080"}
    /\ pc \in {"new", "run", "serving"}
       => /\ toDial = <<>>
          /\ conns = dialed
          /\ cmd = "search" => dialed = <<"geo:8080", "rate:8080">>
          /\ cmd = "frontend" => dialed = <<"search:8080", "profile:8080">>

C14_Witness ==
    /\ pc = "serving"
    /\ cmd = "search"
    /\ dialed = <<"geo:8080", "rate:8080">>

\* C16: points are put in the index only by newGeoIndex and records in the
\* table only by loadProfiles, both before the listen loop starts; no Nearby
\* or GetProfiles request, in any order, changes either of them.
C16_ReadOnlyAfterBuild ==
    [][/\ geoidx' # geoidx => pc = "addPoints" /\ cmd = "geo"
       /\ profiles' # profiles => pc = "addProfiles" /\ cmd = "profile"
       /\ pc \in {"new", "run", "serving", "exited"}
          => geoidx' = geoidx /\ profiles' = profiles
       /\ (geoRes' # geoRes \/ profRes' # profRes)
          => geoidx' = geoidx /\ profiles' = profiles]_vars

C16_Witness ==
    /\ Serving("profile")
    /\ profRes # Nil
    /\ \E i \in 1..Len(profRes.HotelIds) : profRes.HotelIds[i] \notin DOMAIN profiles
    /\ profiles # <<>>

\* C17: GetProfiles returns no error and one entry per requested id, in the
\* order of the request: the stored record of an id of the table, nil for an
\* id that is not in it.
C17_OneEntryPerId ==
    profRes # Nil
    => /\ profRes.err = NoErr
       /\ Len(profRes.Hotels) = Len(profRes.HotelIds)
       /\ \A i \in 1..Len(profRes.HotelIds) :
            IF profRes.HotelIds[i] \in DOMAIN profiles
            THEN /\ profRes.Hotels[i] = profiles[profRes.HotelIds[i]]
                 /\ profRes.Hotels[i].Id = profRes.HotelIds[i]
            ELSE profRes.Hotels[i] = Nil

C17_Witness ==
    /\ profRes # Nil
    /\ Len(profRes.HotelIds) = 2
    /\ profRes.HotelIds[1] \notin DOMAIN profiles
    /\ profRes.HotelIds[2] \in DOMAIN profiles
    /\ profRes.Hotels[1] = Nil
    /\ profRes.Hotels[2] # Nil

\* The spans this process has emitted.
EmittedSpans ==
    UNION {Range(req[r].spans) : r \in Requests}
    \cup (IF geoRes = Nil THEN {} ELSE Range(geoRes.spans))
    \cup (IF profRes = Nil THEN {} ELSE Range(profRes.spans))

\* C18: the tracer is created before the role is looked at and is named
\* "search" whatever the role, so every span of every process carries that
\* serviceName; when the tracer cannot be created the process ends with
\* nothing resolved, dialed, built or served.
C18_TracerFirstFixedName ==
    /\ tracer \in {"none", "search"}
    /\ \A sp \in EmittedSpans : sp.serviceName = "search"
    /\ pc \notin {"traceNew", "exited"} => tracer = "search"
    /\ tracer = "none"
       => /\ pc \in {"traceNew", "exited"}
          /\ pc = "exited" => exit = "fatal"
          /\ srv = "none" /\ toDial = <<>> /\ dialed = <<>> /\ conns = <<>>
          /\ geoidx = <<>> /\ profiles = <<>>
          /\ geoRes = Nil /\ profRes = Nil
          /\ \A r \in Requests : req[r] = NewRequest

C18_Witness ==
    /\ Serving("geo")
    /\ geoRes # Nil
    /\ \E sp \in Range(geoRes.spans) : sp.serviceName = "search"

\* The client spans of a request, by position among its spans.
ClientSpans(r) ==
    {i \in 1..Len(req[r].spans) : req[r].spans[i].kind = "client"}

\* C11: every call through a dialed connection starts one span under the span
\* of the inbound request and is sent with that span's context injected; the
\* span is open exactly while the call is in flight, it is finished when the
\* call has returned (a reply, an error or the cancellation), and a finished
\* span is never changed again.
C11_ClientSpanPerCall ==
    /\ [](\A r \in Requests :
            /\ Cardinality(ClientSpans(r)) = Len(req[r].calls)
            /\ \A i \in ClientSpans(r) :
                /\ req[r].spans[i].parentSpanId = req[r].spans[1].spanId
                /\ req[r].spans[i].traceId = req[r].spans[1].traceId
                /\ req[r].spans[i].finished
                   <=> ~(InFlight(req[r]) /\ \A j \in ClientSpans(r) : j <= i)
            /\ InFlight(req[r])
               => \E i \in ClientSpans(r) :
                    /\ \A j \in ClientSpans(r) : j <= i
                    /\ req[r].spans[i].operationName = req[r].calls[Len(req[r].calls)]
                    /\ req[r].sent.metadata = Inject(req[r].spans[i])
                    /\ Extract(req[r].sent.metadata) = Context(req[r].spans[i]))
    /\ [][\A r \in Requests : \A i \in 1..Len(req[r].spans) :
            req[r].spans[i].finished
            => /\ i <= Len(req'[r].spans)
               /\ req'[r].spans[i] = req[r].spans[i]]_vars

C11_Witness ==
    \E r1, r2 \in Requests :
        /\ Returned(req[r1]) /\ Returned(req[r2])
        /\ req[r1].cancelled
        /\ Len(req[r1].calls) = 2
        /\ \A i \in ClientSpans(r1) : req[r1].spans[i].finished
        /\ ~req[r2].cancelled
        /\ \E i \in 1..Len(req[r2].replies) : req[r2].replies[i].out.err \in ErrMsgs
        /\ ClientSpans(r2) # {}
        /\ \A i \in ClientSpans(r2) : req[r2].spans[i].finished

\* The trace of a request: the span of the caller, when the request came with
\* the caller's context, and the spans of the request in start order.
Trace(r) ==
    (IF Extract(req[r].carrier) = NoContext THEN <<>> ELSE <<UpstreamSpan>>)
    \o req[r].spans

\* C12: the spans of one /hotels request, on every hop, carry one trace id;
\* one span of the trace, its root, has no parent and every other span's
\* parent is a span of the trace started before it; a span has a parent
\* exactly when the call that created it carried a context.
C12_SingleSpanTree ==
    \A r \in Requests :
        LET t == Trace(r)
        IN /\ \A i, j \in 1..Len(t) : t[i].traceId = t[j].traceId
           /\ \A i, j \in 1..Len(t) : i # j => t[i].spanId # t[j].spanId
           /\ t # <<>>
              => /\ Cardinality({i \in 1..Len(t) : t[i].parentSpanId = ""}) = 1
                 /\ t[1].parentSpanId = ""
           /\ \A i \in 2..Len(t) :
                \E j \in 1..(i - 1) : t[j].spanId = t[i].parentSpanId
           /\ req[r].spans # <<>>
              => (req[r].spans[1].parentSpanId # ""
                  <=> Extract(req[r].carrier) # NoContext)
           /\ \A i \in 2..Len(req[r].spans) :
                /\ req[r].spans[i].parentSpanId # ""
                /\ req[r].spans[i].kind = "server"
                   => /\ req[r].spans[i - 1].kind = "client"
                      /\ req[r].spans[i].parentSpanId = req[r].spans[i - 1].spanId

C12_Witness ==
    \E r \in Requests :
        /\ req[r].pc = "done"
        /\ req[r].status = StatusOK
        /\ req[r].calls = <<"Search", "Profile">>
        /\ Len(req[r].spans) = 5
        /\ Len(Trace(r)) = 6

C15_ConfigFixedOnceServing ==
    /\ [][(pc = "run" \/ pc = "serving")
          => /\ cmd' = cmd /\ srv' = srv
             /\ toDial' = toDial /\ dialed' = dialed /\ conns' = conns
             /\ (pc = "serving" => pc' = "serving")]_vars
    /\ [](pc = "serving"
          => /\ Len(conns) = Len(dialed)
             /\ \A i, j \in 1..Len(conns) : i # j => conns[i] # conns[j]
             /\ \A r \in Requests :
                    req[r].sent # Nil
                    => req[r].sent.conn =
                        (IF req[r].calls[Len(req[r].calls)] = "Search"
                         THEN "search:8080" ELSE "profile:8080"))

C15_Witness ==
    /\ pc = "serving"
    /\ dialed = <<"search:8080", "profile:8080">>
    /\ \E r1, r2 \in Requests :
        /\ r1 # r2
        /\ \E i \in 1..Len(req[r1].replies) :
            req[r1].replies[i].from = "Search" /\ req[r1].replies[i].out.err \in ErrMsgs
        /\ req[r2].pc = "search"
        /\ req[r2].sent.conn = req[r1].sent.conn
====
